---- MODULE Spec2Model ----
(***************************************************************************)
(* Model of the two HTTP handlers of search-agent-tool:                    *)
(*   seacrh_by_date/__init__.py  (search-index variant, "seacrh_by_date")  *)
(*   search_by_date/__init__.py  (RAG variant,          "search_by_date")  *)
(* One request is followed from intake to its HTTP response.               *)
(*                                                                         *)
(* Representation of the Python values:                                    *)
(*   str          a sequence of one-character strings (queries) or of      *)
(*                lexical pieces (agent replies, see Pieces)               *)
(*   date         its proleptic Gregorian ordinal (date.toordinal())       *)
(*   ISO string   the triple <<year, month, day>> printed in it; a triple  *)
(*                that is no calendar date stands for text that            *)
(*                dateutil cannot parse                                    *)
(*   dict         a function from its keys to its values                   *)
(***************************************************************************)
EXTENDS Integers, Sequences, FiniteSets, TLC

VARIABLES
    variant,            \* which handler serves the request
    pc,                 \* position of the request in main()
    raw_query,          \* req.params.get("q")
    user_query,         \* the query main() passes to the resolver
    today,              \* the date the wall clock shows during the request
    project,            \* the module-level AIProjectClient; FALSE when None
    budget,             \* messages and pieces the remote agent may still write
    messages,           \* the agent thread's history, ascending
    run_status,         \* run.status once create_and_process has returned
    resolver,           \* the path that produced parsed_date_info
    fallback_calls,     \* the arguments of the calls of fallback_date_parser
    parsed_date_info,   \* the DateQuery
    filter_string,      \* the result of build_filter_expression
    posts,              \* the requests.post calls issued: the filter each carried
    service_reply,      \* what the last requests.post got back
    response            \* the func.HttpResponse returned

vars == <<variant, pc, raw_query, user_query, today, project, budget, messages,
          run_status, resolver, fallback_calls, parsed_date_info,
          filter_string, posts, service_reply, response>>

Variants == {"seacrh_by_date", "search_by_date"}

-----------------------------------------------------------------------------
(* datetime.date arithmetic (proleptic Gregorian ordinals)                 *)

IsLeap(y) == (y % 4 = 0) /\ ((y % 100 # 0) \/ (y % 400 = 0))

DaysInMonth(y, m) ==
    IF m = 2 THEN (IF IsLeap(y) THEN 29 ELSE 28)
    ELSE IF m \in {4, 6, 9, 11} THEN 30 ELSE 31

DaysBeforeYear(y) ==
    (y - 1) * 365 + ((y - 1) \div 4) - ((y - 1) \div 100) + ((y - 1) \div 400)

RECURSIVE DaysBeforeMonth(_, _)
DaysBeforeMonth(y, m) ==
    IF m = 1 THEN 0 ELSE DaysBeforeMonth(y, m - 1) + DaysInMonth(y, m - 1)

\* date(y, m, d).toordinal()
ToOrdinal(y, m, d) == DaysBeforeYear(y) + DaysBeforeMonth(y, m) + d

\* the year of date.fromordinal(n)
YearOf(n) ==
    LET n0   == n - 1
        n400 == n0 \div 146097
        r400 == n0 % 146097
        n100 == r400 \div 36524
        r100 == r400 % 36524
        n4   == r100 \div 1461
        r4   == r100 % 1461
        n1   == r4 \div 365
        y    == n400 * 400 + n100 * 100 + n4 * 4 + n1 + 1
    IN  IF n1 = 4 \/ n100 = 4 THEN y - 1 ELSE y

RECURSIVE MonthFrom(_, _, _)
MonthFrom(y, m, rest) ==
    IF rest <= DaysInMonth(y, m) THEN m ELSE MonthFrom(y, m + 1, rest - DaysInMonth(y, m))

\* date.fromordinal(n) as <<year, month, day>>
FromOrdinal(n) ==
    LET y == YearOf(n)
        r == n - DaysBeforeYear(y)
        m == MonthFrom(y, 1, r)
    IN  <<y, m, r - DaysBeforeMonth(y, m)>>

\* date.weekday(): Monday is 0, Sunday is 6
weekday(n) == (n + 6) % 7

\* date.replace(day=1)
replace_day_1(n) == LET t == FromOrdinal(n) IN ToOrdinal(t[1], t[2], 1)

\* date.isoformat(): the text YYYY-MM-DD, kept as its three numbers
isoformat(n) == FromOrdinal(n)

IsCalendarDate(t) ==
    /\ t[1] \in 1..9999
    /\ t[2] \in 1..12
    /\ t[3] \in 1..DaysInMonth(t[1], t[2])

\* dateutil parse(text).date(): defined when the text names a calendar date
parse_date(t) == ToOrdinal(t[1], t[2], t[3])

-----------------------------------------------------------------------------
(* str operations on sequences of characters                               *)

Digits == {"0", "1", "2", "3", "4", "5", "6", "7", "8", "9"}

DigitVal(c) ==
    CASE c = "0" -> 0 [] c = "1" -> 1 [] c = "2" -> 2 [] c = "3" -> 3
      [] c = "4" -> 4 [] c = "5" -> 5 [] c = "6" -> 6 [] c = "7" -> 7
      [] c = "8" -> 8 [] c = "9" -> 9

\* characters regex \s and str.strip() treat as whitespace
Whitespace == {" "}

\* characters that are not \w for the re module
NonWord == Whitespace \cup {"?", "&", ";", "{", "}"}

IsWordChar(c) == c \notin NonWord

\* str.lower(), one character
LowerChar(c) ==
    CASE c = "H" -> "h" [] c = "O" -> "o" [] c = "Y" -> "y" [] c = "A" -> "a"
      [] c = "E" -> "e" [] c = "R" -> "r" [] c = "Ú" -> "ú"
      [] OTHER -> c

lower(s) == [i \in 1..Len(s) |-> LowerChar(s[i])]

RECURSIVE lstrip(_)
lstrip(s) == IF s # <<>> /\ Head(s) \in Whitespace THEN lstrip(Tail(s)) ELSE s

RECURSIVE rstrip(_)
rstrip(s) ==
    IF s # <<>> /\ s[Len(s)] \in Whitespace THEN rstrip(SubSeq(s, 1, Len(s) - 1)) ELSE s

strip(s) == rstrip(lstrip(s))

\* p in s
Contains(s, p) ==
    \E i \in 1..(Len(s) - Len(p) + 1) : SubSeq(s, i, i + Len(p) - 1) = p

\* html.unescape(s), for the one entity the model's queries use
Entity == <<"&", "u", "a", "c", "u", "t", "e", ";">>

RECURSIVE html_unescape(_)
html_unescape(s) ==
    IF s = <<>> THEN <<>>
    ELSE IF Len(s) >= Len(Entity) /\ SubSeq(s, 1, Len(Entity)) = Entity
         THEN <<"ú">> \o html_unescape(SubSeq(s, Len(Entity) + 1, Len(s)))
         ELSE <<Head(s)>> \o html_unescape(Tail(s))

\* positions where r'\b(20\d{2})\b' matches in s
YearMatchAt(s, i) ==
    /\ i + 3 <= Len(s)
    /\ s[i] = "2" /\ s[i + 1] = "0"
    /\ s[i + 2] \in Digits /\ s[i + 3] \in Digits
    /\ (i = 1 \/ ~IsWordChar(s[i - 1]))
    /\ (i + 3 = Len(s) \/ ~IsWordChar(s[i + 4]))

YearMatches(s) == {i \in 1..Len(s) : YearMatchAt(s, i)}

Min(S) == CHOOSE x \in S : \A y \in S : x <= y

\* int(re.search(r'\b(20\d{2})\b', s).group(1)), where a match exists
YearFound(s) ==
    LET i == Min(YearMatches(s))
    IN  2000 + 10 * DigitVal(s[i + 2]) + DigitVal(s[i + 3])

\* the phrases of the heuristic
MES_PASADO     == <<"m", "e", "s", " ", "p", "a", "s", "a", "d", "o">>
ULTIMO_MES     == <<"ú", "l", "t", "i", "m", "o", " ", "m", "e", "s">>
SEMANA_PASADA  == <<"s", "e", "m", "a", "n", "a", " ", "p", "a", "s", "a", "d", "a">>
ULTIMA_SEMANA  == <<"ú", "l", "t", "i", "m", "a", " ", "s", "e", "m", "a", "n", "a">>
AYER           == <<"a", "y", "e", "r">>
HOY            == <<"h", "o", "y">>

-----------------------------------------------------------------------------
(* DateQuery dicts                                                         *)

EmptyDict == [k \in {} |-> <<0, 0, 0>>]

SingleDate(d) == "date" :> d

DateRange(s, e) == ("start" :> s) @@ ("end" :> e)

\* the default answer with its "end" left out
LastMonthRange_start_only(t) ==
    "start" :> isoformat(replace_day_1(replace_day_1(t) - 1))

\* the range "first day through last day of the month before today's"
LastMonthRange(t) ==
    LET last_month          == replace_day_1(t) - 1
        start_of_last_month == replace_day_1(last_month)
    IN  DateRange(isoformat(start_of_last_month), isoformat(last_month))

-----------------------------------------------------------------------------
(* fallback_date_parser, one definition per handler                        *)

\* seacrh_last_week with a whole week added to the days since Sunday
seacrh_last_week_from_sunday(t) ==
    LET days_back          == ((weekday(t) + 1) % 7) + 7
        start_of_last_week == t - days_back
        end_of_last_week   == start_of_last_week + 6
    IN  DateRange(isoformat(start_of_last_week), isoformat(end_of_last_week))

seacrh_last_week(t) ==
    LET days_back          == ((weekday(t) + 1) % 7) + 6
        start_of_last_week == t - days_back
        end_of_last_week   == start_of_last_week + 6
    IN  DateRange(isoformat(start_of_last_week), isoformat(end_of_last_week))

\* seacrh_fallback_date_parser with the year token looked for before "hoy"
seacrh_fallback_year_before_hoy(q, t) ==
    LET query_lower == strip(lower(q))
    IN  IF Contains(query_lower, MES_PASADO) \/ Contains(query_lower, ULTIMO_MES)
        THEN LastMonthRange(t)
        ELSE IF Contains(query_lower, SEMANA_PASADA) \/ Contains(query_lower, ULTIMA_SEMANA)
        THEN DateRange(isoformat(t - (((weekday(t) + 1) % 7) + 6)),
                       isoformat(t - ((weekday(t) + 1) % 7)))
        ELSE IF Contains(query_lower, AYER)
        THEN SingleDate(isoformat(t - 1))
        ELSE IF YearMatches(query_lower) # {}
        THEN DateRange(<<YearFound(query_lower), 1, 1>>, <<YearFound(query_lower), 12, 31>>)
        ELSE IF Contains(query_lower, HOY)
        THEN SingleDate(isoformat(t))
        ELSE LastMonthRange(t)

seacrh_fallback_date_parser(q, t) ==
    LET query_lower == strip(lower(q))
    IN  IF Contains(query_lower, MES_PASADO) \/ Contains(query_lower, ULTIMO_MES)
        THEN LastMonthRange(t)
        ELSE IF Contains(query_lower, SEMANA_PASADA) \/ Contains(query_lower, ULTIMA_SEMANA)
        THEN seacrh_last_week(t)
        ELSE IF Contains(query_lower, AYER)
        THEN SingleDate(isoformat(t - 1))
        ELSE IF Contains(query_lower, HOY)
        THEN SingleDate(isoformat(t))
        ELSE IF YearMatches(query_lower) # {}
        THEN DateRange(<<YearFound(query_lower), 1, 1>>, <<YearFound(query_lower), 12, 31>>)
        ELSE LastMonthRange(t)

search_last_week(t) ==
    LET start == t - (weekday(t) + 7)
        end   == start + 6
    IN  DateRange(isoformat(start), isoformat(end))

search_fallback_date_parser(user_q, t) ==
    LET q == lower(user_q)
    IN  IF Contains(q, ULTIMA_SEMANA) \/ Contains(q, SEMANA_PASADA)
        THEN search_last_week(t)
        ELSE IF Contains(q, AYER)
        THEN SingleDate(isoformat(t - 1))
        ELSE IF Contains(q, HOY)
        THEN SingleDate(isoformat(t))
        ELSE LastMonthRange(t)

fallback_date_parser(v, q, t) ==
    IF v = "seacrh_by_date" THEN seacrh_fallback_date_parser(q, t)
    ELSE search_fallback_date_parser(q, t)

-----------------------------------------------------------------------------
(* Agent replies.  A reply is a sequence of lexical pieces: the two braces, *)
(* whole members of a JSON object (separator included), a key that opens a *)
(* nested object, a line break, and prose.                                 *)

LBRACE == "{"
RBRACE == "}"
NEWLINE == "\n"
PROSE == "texto"
NESTED_KEY == "\"k\":"
DATE_MEMBER == "\"date\":\"2024-04-29\""
BAD_DATE_MEMBER == "\"date\":\"manana\""
START_MEMBER == "\"start\":\"2024-04-01\""
END_MEMBER == "\"end\":\"2024-04-30\""

RANGE_MEMBERS == "\"start\":\"2024-04-01\",\"end\":\"2024-04-30\""
BAD_RANGE_MEMBERS == "\"start\":\"2024-04-01\",\"end\":\"fin de abril\""

Members ==
    {DATE_MEMBER, BAD_DATE_MEMBER, START_MEMBER, END_MEMBER, RANGE_MEMBERS,
     BAD_RANGE_MEMBERS}

\* the keys and string values a member piece adds to its object (see the
\* representation of ISO strings)
MemberDict(p) ==
    CASE p = DATE_MEMBER -> "date" :> <<2024, 4, 29>>
      [] p = BAD_DATE_MEMBER -> "date" :> <<0, 0, 0>>
      [] p = START_MEMBER -> "start" :> <<2024, 4, 1>>
      [] p = END_MEMBER -> "end" :> <<2024, 4, 30>>
      [] p = RANGE_MEMBERS -> ("start" :> <<2024, 4, 1>>) @@ ("end" :> <<2024, 4, 30>>)
      [] p = BAD_RANGE_MEMBERS -> ("start" :> <<2024, 4, 1>>) @@ ("end" :> <<0, 0, 0>>)

\* dict.update: the later value of a key wins
Update(d, e) == e @@ d

RECURSIVE lstrip_text(_)
lstrip_text(s) == IF s # <<>> /\ Head(s) = NEWLINE THEN lstrip_text(Tail(s)) ELSE s

RECURSIVE rstrip_text(_)
rstrip_text(s) ==
    IF s # <<>> /\ s[Len(s)] = NEWLINE THEN rstrip_text(SubSeq(s, 1, Len(s) - 1)) ELSE s

\* str.strip() on a reply
strip_text(s) == rstrip_text(lstrip_text(s))

\* s.startswith('{') and s.endswith('}')
LooksLikeJson(s) == s # <<>> /\ s[1] = LBRACE /\ s[Len(s)] = RBRACE

JsonFail == [ok |-> FALSE, next |-> 0, dict |-> EmptyDict]

\* The JSON decoder inside an object whose "{" has been read: members from
\* position i on, up to the closing brace.  acc is the dict read so far.
RECURSIVE ParseMembers(_, _, _)
ParseMembers(s, i, acc) ==
    IF i > Len(s) THEN JsonFail
    ELSE IF s[i] = NEWLINE THEN ParseMembers(s, i + 1, acc)
    ELSE IF s[i] = RBRACE THEN [ok |-> TRUE, next |-> i + 1, dict |-> acc]
    ELSE IF s[i] \in Members
    THEN ParseMembers(s, i + 1, Update(acc, MemberDict(s[i])))
    ELSE IF s[i] = NESTED_KEY /\ i + 1 <= Len(s) /\ s[i + 1] = LBRACE
    THEN LET inner == ParseMembers(s, i + 2, EmptyDict)
         IN  IF inner.ok THEN ParseMembers(s, inner.next, Update(acc, "k" :> <<0, 0, 0>>))
             ELSE JsonFail
    ELSE JsonFail

\* json.loads(s): ok is FALSE where it raises JSONDecodeError
json_loads(s) ==
    LET t == strip_text(s)
        r == IF t # <<>> /\ t[1] = LBRACE THEN ParseMembers(t, 2, EmptyDict) ELSE JsonFail
    IN  IF r.ok /\ r.next = Len(t) + 1 THEN [ok |-> TRUE, dict |-> r.dict]
        ELSE [ok |-> FALSE, dict |-> EmptyDict]

Braces == {LBRACE, RBRACE}

\* re.search(r'\{[^{}]*\}', s): <<i, j>> bounds of the leftmost match, <<>> if none
seacrh_json_match(s) ==
    LET starts == {i \in 1..Len(s) :
                     /\ s[i] = LBRACE
                     /\ \E j \in (i + 1)..Len(s) :
                          /\ s[j] = RBRACE
                          /\ \A k \in (i + 1)..(j - 1) : s[k] \notin Braces}
    IN  IF starts = {} THEN <<>>
        ELSE LET i == Min(starts)
                 j == Min({k \in (i + 1)..Len(s) : s[k] = RBRACE})
             IN  <<i, j>>

\* re.search(r'\{.*?\}', s): "." matches any piece but a line break
search_json_match(s) ==
    LET ends(i) == {j \in (i + 1)..Len(s) :
                      /\ s[j] = RBRACE
                      /\ \A k \in (i + 1)..(j - 1) : s[k] # NEWLINE}
        starts  == {i \in 1..Len(s) : s[i] = LBRACE /\ ends(i) # {}}
    IN  IF starts = {} THEN <<>>
        ELSE LET i == Min(starts) IN <<i, Min(ends(i))>>

\* match.group()
group(s, m) == SubSeq(s, m[1], m[2])

-----------------------------------------------------------------------------
(* call_date_parser_agent, given what the remote service returned.         *)
(* A message is [role, text_messages, text]: text_messages tells whether   *)
(* message.text_messages is non-empty, text is text_messages[-1].text.value *)

Returned(d) == [raised |-> FALSE, value |-> d, error |-> ""]

Raised(e) == [raised |-> TRUE, value |-> EmptyDict, error |-> e]

HasAssistantText(msg) == msg.role = "assistant" /\ msg.text_messages

\* the loop of lines 70-73: the text of the last assistant message with text
RECURSIVE seacrh_agent_response(_, _)
seacrh_agent_response(msgs, agent_response) ==
    IF msgs = <<>> THEN agent_response
    ELSE seacrh_agent_response(Tail(msgs),
             IF HasAssistantText(Head(msgs))
             THEN [found |-> TRUE, text |-> Head(msgs).text]
             ELSE agent_response)

\* seacrh_extract trying the brace match after a failed whole-text parse
seacrh_extract_falls_through(agent_response) ==
    LET text == strip_text(agent_response)
        m    == seacrh_json_match(text)
    IN  IF LooksLikeJson(text) /\ json_loads(text).ok THEN Returned(json_loads(text).dict)
        ELSE IF m # <<>>
        THEN IF json_loads(group(text, m)).ok THEN Returned(json_loads(group(text, m)).dict)
             ELSE Raised("Invalid JSON response from agent")
        ELSE Raised("No JSON found in agent response")

\* lines 82-96: the JSON of one reply text
seacrh_extract(agent_response) ==
    LET text == strip_text(agent_response)
        m    == seacrh_json_match(text)
    IN  IF LooksLikeJson(text)
        THEN IF json_loads(text).ok THEN Returned(json_loads(text).dict)
             ELSE Raised("Invalid JSON response from agent")
        ELSE IF m # <<>>
        THEN IF json_loads(group(text, m)).ok THEN Returned(json_loads(group(text, m)).dict)
             ELSE Raised("Invalid JSON response from agent")
        ELSE Raised("No JSON found in agent response")

seacrh_call_date_parser_agent(proj, status, msgs) ==
    IF ~proj THEN Raised("Azure AI Project client not available - check authentication")
    ELSE IF status = "failed" THEN Raised("Agent run failed")
    ELSE LET r == seacrh_agent_response(msgs, [found |-> FALSE, text |-> <<>>])
         IN  IF ~r.found \/ r.text = <<>> THEN Raised("No response from agent")
             ELSE seacrh_extract(r.text)

\* lines 47-55: the loop returns, or raises, at the first assistant message
\* whose text looks like JSON or holds a brace match
RECURSIVE search_scan_messages(_)
search_scan_messages(msgs) ==
    IF msgs = <<>> THEN Raised("No valid JSON output from agent")
    ELSE LET msg           == Head(msgs)
             response_text == strip_text(msg.text)
             match         == search_json_match(response_text)
         IN  IF ~HasAssistantText(msg) THEN search_scan_messages(Tail(msgs))
             ELSE IF LooksLikeJson(response_text)
             THEN IF json_loads(response_text).ok
                  THEN Returned(json_loads(response_text).dict)
                  ELSE Raised("JSONDecodeError")
             ELSE IF match # <<>>
             THEN IF json_loads(group(response_text, match)).ok
                  THEN Returned(json_loads(group(response_text, match)).dict)
                  ELSE Raised("JSONDecodeError")
             ELSE search_scan_messages(Tail(msgs))

search_call_date_parser_agent(proj, status, msgs) ==
    IF ~proj THEN Raised("AI Project client unavailable")
    ELSE IF status = "failed" THEN Raised("Agent failed")
    ELSE search_scan_messages(msgs)

call_date_parser_agent(v, proj, status, msgs) ==
    IF v = "seacrh_by_date" THEN seacrh_call_date_parser_agent(proj, status, msgs)
    ELSE search_call_date_parser_agent(proj, status, msgs)

-----------------------------------------------------------------------------
(* build_filter_expression (the same text in both handlers)                *)

FIELD == "metadata_spo_item_release_date"

\* the f-strings of lines 158 and 165: fixed text around the re-serialised dates
EqFilter(d) == <<FIELD, " eq ", d, "T00:00:00Z">>

RangeFilter(s, e) == <<"(", FIELD, " ge ", s, "T00:00:00Z and ", FIELD, " le ", e, "T23:59:59Z)">>

\* build_filter_expression with the range branch taken on "start" alone:
\* date_data["end"] then raises KeyError
build_filter_expression_start_only(date_data) ==
    IF "date" \in DOMAIN date_data
    THEN IF IsCalendarDate(date_data["date"])
         THEN [raised |-> FALSE,
               value  |-> EqFilter(isoformat(parse_date(date_data["date"])))]
         ELSE [raised |-> TRUE, value |-> <<>>]
    ELSE IF "start" \in DOMAIN date_data
    THEN IF "end" \in DOMAIN date_data
            /\ IsCalendarDate(date_data["start"]) /\ IsCalendarDate(date_data["end"])
         THEN [raised |-> FALSE,
               value  |-> RangeFilter(isoformat(parse_date(date_data["start"])),
                                      isoformat(parse_date(date_data["end"])))]
         ELSE [raised |-> TRUE, value |-> <<>>]
    ELSE [raised |-> FALSE, value |-> <<>>]

\* raised is TRUE where parse_date raises; value is the string returned
build_filter_expression(date_data) ==
    IF "date" \in DOMAIN date_data
    THEN IF IsCalendarDate(date_data["date"])
         THEN [raised |-> FALSE,
               value  |-> EqFilter(isoformat(parse_date(date_data["date"])))]
         ELSE [raised |-> TRUE, value |-> <<>>]
    ELSE IF "start" \in DOMAIN date_data /\ "end" \in DOMAIN date_data
    THEN IF IsCalendarDate(date_data["start"]) /\ IsCalendarDate(date_data["end"])
         THEN [raised |-> FALSE,
               value  |-> RangeFilter(isoformat(parse_date(date_data["start"])),
                                      isoformat(parse_date(date_data["end"])))]
         ELSE [raised |-> TRUE, value |-> <<>>]
    ELSE [raised |-> FALSE, value |-> <<>>]

-----------------------------------------------------------------------------
(* The search / RAG service call.  A reply is what requests.post gives:    *)
(* an exception (no connection), or a status code and a body.              *)

ServiceStatuses == {200, 201, 300, 404, 503}

\* shapes of the reply body: a search result {"value": [...]}, a chat
\* completion {"choices": [{"message": {"content": ...}}]}, a JSON object
\* with neither key, and text that is no JSON
ServiceBodies == {"documents", "completion", "object", "html"}

NoReply == [exception |-> FALSE, status_code |-> 0, body |-> "none"]

ConnectionError == [exception |-> TRUE, status_code |-> 0, body |-> "none"]

ServiceReplies ==
    {ConnectionError}
        \cup [exception : {FALSE}, status_code : ServiceStatuses, body : ServiceBodies]

\* Response.raise_for_status() raises HTTPError
raise_for_status(status_code) == status_code >= 400 /\ status_code < 600

DOCUMENTS == <<"documento">>
ANSWER == "respuesta"

\* search_filtered_items: raised, or the list response.json().get("value", [])
search_filtered_items(reply) ==
    IF reply.exception THEN [raised |-> TRUE, value |-> <<>>]
    ELSE IF reply.status_code # 200 /\ raise_for_status(reply.status_code)
    THEN [raised |-> TRUE, value |-> <<>>]
    ELSE IF reply.body = "html" THEN [raised |-> TRUE, value |-> <<>>]
    ELSE IF reply.body = "documents" THEN [raised |-> FALSE, value |-> DOCUMENTS]
    ELSE [raised |-> FALSE, value |-> <<>>]

\* call_rag_agent_with_filter: raised, or response.json()
call_rag_agent_with_filter(reply) ==
    IF reply.exception THEN [raised |-> TRUE, value |-> "html"]
    ELSE IF raise_for_status(reply.status_code) THEN [raised |-> TRUE, value |-> "html"]
    ELSE IF reply.body = "html" THEN [raised |-> TRUE, value |-> "html"]
    ELSE [raised |-> FALSE, value |-> reply.body]

\* gpt_response["choices"][0]["message"]["content"]: raised on KeyError
gpt_answer(gpt_response) ==
    IF gpt_response = "completion" THEN [raised |-> FALSE, value |-> ANSWER]
    ELSE [raised |-> TRUE, value |-> ""]

-----------------------------------------------------------------------------
(* func.HttpResponse values                                                *)

TextResponse(code, text) ==
    [status_code |-> code, json |-> FALSE, body |-> ("text" :> text)]

JsonResponse(code, body) == [status_code |-> code, json |-> TRUE, body |-> body]

NoResponse == [status_code |-> 0, json |-> FALSE, body |-> ("text" :> "")]

\* the handler of "except Exception as e" that closes main()
ErrorResponse(e) == JsonResponse(500, "error" :> e)

\* lines 229-234 and 142-143: the answer to an empty filter
NoDateResponse(v) ==
    IF v = "seacrh_by_date"
    THEN JsonResponse(400, "error" :> "No valid date or range detected.")
    ELSE TextResponse(400, "No valid date found in query.")

\* lines 239-246 and 149-158: the answer that carries the result
seacrh_ok_response(info, results) ==
    JsonResponse(200, ("parsed_dates" :> info) @@ ("filtered_items" :> results))

search_ok_response(info, filter_expression, answer) ==
    JsonResponse(200, ("parsed_dates" :> info) @@ ("filter" :> filter_expression)
                          @@ ("gpt_answer" :> answer))

-----------------------------------------------------------------------------
(* main(): the steps of one request                                        *)

\* date_parsing with "except ValueError": an SDK error is not caught
date_parsing_value_error_only(v, q, t, r) ==
    IF r.raised /\ r.error = "HttpResponseError"
    THEN [raised |-> TRUE, resolver |-> "agent", called |-> <<>>, info |-> EmptyDict]
    ELSE IF r.raised
    THEN [raised |-> FALSE, resolver |-> "fallback", called |-> <<q>>,
          info |-> fallback_date_parser(v, q, t)]
    ELSE [raised |-> FALSE, resolver |-> "agent", called |-> <<>>, info |-> r.value]

\* lines 219-225 and 134-138: try the agent, "except Exception" the fallback.
\* r is the outcome of call_date_parser_agent.
date_parsing(v, q, t, r) ==
    IF r.raised
    THEN [raised |-> FALSE, resolver |-> "fallback", called |-> <<q>>,
          info |-> fallback_date_parser(v, q, t)]
    ELSE [raised |-> FALSE, resolver |-> "agent", called |-> <<>>, info |-> r.value]

\* what main() does with the outcome r of the agent call
Resolve(r) ==
    LET d == date_parsing(variant, user_query, today, r)
    IN  /\ resolver' = d.resolver
        /\ fallback_calls' = fallback_calls \o d.called
        /\ parsed_date_info' = d.info
        /\ IF d.raised
           THEN pc' = "done" /\ response' = ErrorResponse(r.error)
           ELSE pc' = "build_filter" /\ UNCHANGED response

\* lines 212-216 and 126-131
ReceiveRequest ==
    /\ pc = "start"
    /\ IF raw_query = <<>>
       THEN /\ response' = TextResponse(400, "Missing 'q' parameter")
            /\ pc' = "done"
            /\ UNCHANGED user_query
       ELSE /\ user_query' = IF variant = "search_by_date"
                             THEN html_unescape(raw_query) ELSE raw_query
            /\ pc' = "date_parsing"
            /\ UNCHANGED response
    /\ UNCHANGED <<variant, raw_query, today, project, budget, messages, run_status,
                   resolver, fallback_calls, parsed_date_info, filter_string, posts,
                   service_reply>>

\* lines 35-36 and 37-38: no client, the call raises at once
AgentUnavailable ==
    /\ pc = "date_parsing"
    /\ ~project
    /\ Resolve(call_date_parser_agent(variant, project, run_status, messages))
    /\ UNCHANGED <<variant, raw_query, user_query, today, project, budget, messages,
                   run_status, filter_string, posts, service_reply>>

UserMessage(q) == [role |-> "user", text_messages |-> TRUE, text |-> q]

\* lines 40-57 and 40-43: thread and user message created, the run started
AgentStart ==
    /\ pc = "date_parsing"
    /\ project
    /\ messages' = <<UserMessage(user_query)>>
    /\ pc' = "run"
    /\ UNCHANGED <<variant, raw_query, user_query, today, project, budget, run_status,
                   resolver, fallback_calls, parsed_date_info, filter_string, posts,
                   service_reply, response>>

\* the remote agent adds a message to the thread
AgentPostsMessage(has_text) ==
    /\ pc = "run"
    /\ budget > 0
    /\ budget' = budget - 1
    /\ messages' = Append(messages,
                     [role |-> "assistant", text_messages |-> has_text, text |-> <<>>])
    /\ UNCHANGED <<variant, pc, raw_query, user_query, today, project, run_status,
                   resolver, fallback_calls, parsed_date_info, filter_string, posts,
                   service_reply, response>>

\* the remote agent writes on in its latest message
AgentWritesPiece(p) ==
    /\ pc = "run"
    /\ budget > 0
    /\ HasAssistantText(messages[Len(messages)])
    /\ budget' = budget - 1
    /\ messages' = [messages EXCEPT ![Len(messages)].text = Append(@, p)]
    /\ UNCHANGED <<variant, pc, raw_query, user_query, today, project, run_status,
                   resolver, fallback_calls, parsed_date_info, filter_string, posts,
                   service_reply, response>>

\* an SDK call of lines 40-67 raises (authentication, network, timeout)
AgentSdkRaises ==
    /\ pc = "run"
    /\ run_status' = "error"
    /\ Resolve(Raised("HttpResponseError"))
    /\ UNCHANGED <<variant, raw_query, user_query, today, project, budget, messages,
                   filter_string, posts, service_reply>>

RunStatuses == {"completed", "failed", "expired"}

\* create_and_process returns; lines 59-104 and 44-58 read the thread
RunEnds(status) ==
    /\ pc = "run"
    /\ run_status' = status
    /\ Resolve(call_date_parser_agent(variant, project, status, messages))
    /\ UNCHANGED <<variant, raw_query, user_query, today, project, budget, messages,
                   filter_string, posts, service_reply>>

\* the filter step with a date that does not parse taken for no date: 400
BuildFilter_bad_date_is_400 ==
    /\ pc = "build_filter"
    /\ LET f == build_filter_expression(parsed_date_info)
       IN  /\ filter_string' = f.value
           /\ IF f.raised \/ f.value = <<>>
              THEN response' = NoDateResponse(variant) /\ pc' = "done"
              ELSE pc' = "fetch" /\ UNCHANGED response
    /\ UNCHANGED <<variant, raw_query, user_query, today, project, budget, messages,
                   run_status, resolver, fallback_calls, parsed_date_info, posts,
                   service_reply>>

\* lines 228-234 and 141-143
BuildFilter ==
    /\ pc = "build_filter"
    /\ LET f == build_filter_expression(parsed_date_info)
       IN  IF f.raised
           THEN /\ response' = ErrorResponse("ParserError")
                /\ pc' = "done"
                /\ UNCHANGED filter_string
           ELSE /\ filter_string' = f.value
                /\ IF f.value = <<>>
                   THEN response' = NoDateResponse(variant) /\ pc' = "done"
                   ELSE pc' = "fetch" /\ UNCHANGED response
    /\ UNCHANGED <<variant, raw_query, user_query, today, project, budget, messages,
                   run_status, resolver, fallback_calls, parsed_date_info, posts,
                   service_reply>>

\* lines 237-254: search_filtered_items, then the 200 or the 500
seacrh_fetch(info, filter, reply) ==
    LET results == search_filtered_items(reply)
    IN  IF results.raised THEN ErrorResponse("search failed")
        ELSE seacrh_ok_response(info, results.value)

\* lines 146-166: call_rag_agent_with_filter, then the 200 or the 500
search_fetch(info, filter, reply) ==
    LET gpt_response == call_rag_agent_with_filter(reply)
    IN  IF gpt_response.raised THEN ErrorResponse("AOYD call failed")
        ELSE IF gpt_answer(gpt_response.value).raised THEN ErrorResponse("KeyError")
        ELSE search_ok_response(info, filter, gpt_answer(gpt_response.value).value)

\* the service answers the one requests.post of the request
Fetch(reply) ==
    /\ pc = "fetch"
    /\ posts' = Append(posts, filter_string)
    /\ service_reply' = reply
    /\ response' = IF variant = "seacrh_by_date"
                   THEN seacrh_fetch(parsed_date_info, filter_string, reply)
                   ELSE search_fetch(parsed_date_info, filter_string, reply)
    /\ pc' = "done"
    /\ UNCHANGED <<variant, raw_query, user_query, today, project, budget, messages,
                   run_status, resolver, fallback_calls, parsed_date_info,
                   filter_string>>

-----------------------------------------------------------------------------
(* Inputs                                                                  *)

MaxWords == 2
Window == 7
HandlerBudget == 4
ThreadBudget == 7
MaxReplyLen == 5

RECURSIVE Flatten(_)
Flatten(ws) == IF ws = <<>> THEN <<>> ELSE Head(ws) \o Flatten(Tail(ws))

QueryPieces ==
    {MES_PASADO, ULTIMO_MES, SEMANA_PASADA, ULTIMA_SEMANA, AYER, HOY,
     <<"H", "O", "Y">>, <<"2", "0", "2", "4">>, <<" ", "2", "0", "2", "4">>,
     <<"1", "9", "9", "9">>, <<"5">>, <<"d", "e">>}

\* the queries of at most MaxWords pieces
Queries == UNION {{Flatten(ws) : ws \in [1..n -> QueryPieces]} : n \in 0..MaxWords}

\* reference dates: Window days on from the end of February in a common
\* year, a leap year and a century year, and from the end of December
Anchors ==
    {ToOrdinal(2023, 2, 24), ToOrdinal(2023, 12, 27), ToOrdinal(2024, 2, 24),
     ToOrdinal(2100, 2, 24)}

Days == {a + k : a \in Anchors, k \in 0..Window}

HandlerQueries ==
    {<<>>, Entity \o <<"l", "t", "i", "m", "a", " ", "s", "e", "m", "a", "n", "a">>}

HandlerDays == {ToOrdinal(2024, 5, 10)}

\* a range that parses reaches the handler from the fallback
HandlerPieces ==
    {LBRACE, RBRACE, DATE_MEMBER, BAD_DATE_MEMBER, START_MEMBER, BAD_RANGE_MEMBERS}

ThreadPieces == {LBRACE, RBRACE, DATE_MEMBER, PROSE}

ReplyPieces == {LBRACE, RBRACE, DATE_MEMBER, NESTED_KEY, NEWLINE, PROSE}

-----------------------------------------------------------------------------
(* Specifications                                                          *)

Fresh ==
    /\ user_query = <<>>
    /\ messages = <<>>
    /\ run_status = "none"
    /\ resolver = "none"
    /\ fallback_calls = <<>>
    /\ parsed_date_info = EmptyDict
    /\ filter_string = <<>>
    /\ posts = <<>>
    /\ service_reply = NoReply
    /\ response = NoResponse

\* one request to either handler
Init ==
    /\ variant \in Variants
    /\ pc = "start"
    /\ raw_query \in HandlerQueries
    /\ today \in HandlerDays
    /\ project \in BOOLEAN
    /\ budget = HandlerBudget
    /\ Fresh

Next ==
    \/ ReceiveRequest
    \/ AgentUnavailable
    \/ AgentStart
    \/ AgentPostsMessage(TRUE)
    \/ \E p \in HandlerPieces : AgentWritesPiece(p)
    \/ AgentSdkRaises
    \/ \E status \in RunStatuses : RunEnds(status)
    \/ BuildFilter
    \/ \E reply \in ServiceReplies : Fetch(reply)

Spec == Init /\ [][Next]_vars

\* requests served while the agent client is None: every query, every date
InitFallback ==
    /\ variant \in Variants
    /\ pc = "start"
    /\ raw_query \in Queries
    /\ today \in Days
    /\ project = FALSE
    /\ budget = 0
    /\ Fresh

NextFallback == ReceiveRequest \/ AgentUnavailable

SpecFallback == InitFallback /\ [][NextFallback]_vars

\* the same requests, followed through the filter-building step
NextFallbackFilter == NextFallback \/ BuildFilter

SpecFallbackFilter == InitFallback /\ [][NextFallbackFilter]_vars

\* the agent run of one request: threads of several assistant messages
InitThread ==
    /\ variant \in Variants
    /\ pc = "start"
    /\ raw_query = HOY
    /\ today \in HandlerDays
    /\ project = TRUE
    /\ budget = ThreadBudget
    /\ Fresh

NextThread ==
    \/ ReceiveRequest
    \/ AgentStart
    \/ \E has_text \in BOOLEAN : AgentPostsMessage(has_text)
    \/ \E p \in ThreadPieces : AgentWritesPiece(p)
    \/ \E status \in RunStatuses : RunEnds(status)

SpecThread == InitThread /\ [][NextThread]_vars

\* the agent run of one request, the assistant having begun its one reply
InitReply ==
    /\ variant \in Variants
    /\ pc = "run"
    /\ raw_query = HOY
    /\ user_query = HOY
    /\ today \in HandlerDays
    /\ project = TRUE
    /\ budget = MaxReplyLen
    /\ messages = <<UserMessage(HOY),
                    [role |-> "assistant", text_messages |-> TRUE, text |-> <<>>]>>
    /\ run_status = "none"
    /\ resolver = "none"
    /\ fallback_calls = <<>>
    /\ parsed_date_info = EmptyDict
    /\ filter_string = <<>>
    /\ posts = <<>>
    /\ service_reply = NoReply
    /\ response = NoResponse

NextReply ==
    \/ \E p \in ReplyPieces : AgentWritesPiece(p)
    \/ \E status \in RunStatuses : RunEnds(status)

SpecReply == InitReply /\ [][NextReply]_vars

-----------------------------------------------------------------------------
(* Vocabulary of the claims                                                *)

\* main() has left the date-parsing step
Resolved == resolver # "none"

\* the agent path of this request failed
AgentFailed ==
    \/ ~project
    \/ run_status \in {"failed", "error"}
    \/ call_date_parser_agent(variant, project, run_status, messages).raised

QueryLower == lower(user_query)

HasMonth == Contains(QueryLower, MES_PASADO) \/ Contains(QueryLower, ULTIMO_MES)

HasWeek == Contains(QueryLower, SEMANA_PASADA) \/ Contains(QueryLower, ULTIMA_SEMANA)

HasAyer == Contains(QueryLower, AYER)

HasHoy == Contains(QueryLower, HOY)

HasYear == YearMatches(QueryLower) # {}

\* the calendar month before today's, computed from the calendar
PrevMonthRange ==
    LET t == FromOrdinal(today)
        y == IF t[2] = 1 THEN t[1] - 1 ELSE t[1]
        m == IF t[2] = 1 THEN 12 ELSE t[2] - 1
    IN  DateRange(<<y, m, 1>>, <<y, m, DaysInMonth(y, m)>>)

IsRange(d) == DOMAIN d = {"start", "end"}

RangeStart(d) == ToOrdinal(d["start"][1], d["start"][2], d["start"][3])

RangeEnd(d) == ToOrdinal(d["end"][1], d["end"][2], d["end"][3])

-----------------------------------------------------------------------------
(* C1 *)

\* C1: in both handlers, whenever the agent path fails in any way (no client,
\* an SDK error, run status "failed", no assistant message, no JSON, invalid
\* JSON), fallback_date_parser is called once with the query that was given
\* to the agent, its result is the DateQuery, the request goes on to build
\* the filter, and a 500 can then only come from the search/RAG call.
C1_AgentFailureFallsBack ==
    (Resolved /\ AgentFailed) =>
        /\ resolver = "fallback"
        /\ fallback_calls = <<user_query>>
        /\ (messages # <<>> => messages[1].text = user_query)
        /\ parsed_date_info = fallback_date_parser(variant, user_query, today)
        /\ pc \in {"build_filter", "fetch", "done"}
        /\ (pc = "done" => filter_string # <<>>)
        /\ (response.status_code = 500 => Len(posts) = 1)

\* the agent answered, its reply held no valid JSON, and the request was
\* served from the fallback
C1_Witness ==
    /\ pc = "done"
    /\ project
    /\ run_status = "completed"
    /\ \E i \in 1..Len(messages) : HasAssistantText(messages[i]) /\ messages[i].text # <<>>
    /\ resolver = "fallback"
    /\ response.status_code = 200

-----------------------------------------------------------------------------
(* C2 *)

-----------------------------------------------------------------------------
(* C3 *)

\* C3 as stated: for every query containing "hoy", whatever else it holds,
\* the fallback returns {date: today}.
C3_HoyAlways ==
    (resolver = "fallback" /\ HasHoy) =>
        parsed_date_info = SingleDate(FromOrdinal(today))

\* C3 amended: for every query containing "hoy" and none of "mes pasado",
\* "último mes", "semana pasada", "última semana", "ayer", the fallback
\* returns {date: today}.
C3_HoyWithoutHigherPhrase ==
    (resolver = "fallback" /\ HasHoy /\ ~HasMonth /\ ~HasWeek /\ ~HasAyer) =>
        parsed_date_info = SingleDate(FromOrdinal(today))

\* "hoy" beside a year token: the date is today's, not the year's range
C3_Witness ==
    /\ resolver = "fallback"
    /\ HasHoy /\ HasYear /\ ~HasMonth /\ ~HasWeek /\ ~HasAyer
    /\ variant = "seacrh_by_date"
    /\ parsed_date_info = SingleDate(FromOrdinal(today))

-----------------------------------------------------------------------------
(* C4 *)

\* C4: for every reference date and every query that contains "mes pasado"
\* or matches no recognised pattern, the fallback returns the first through
\* the last day of the calendar month before today's.
C4_PreviousMonth ==
    (resolver = "fallback"
        /\ (Contains(QueryLower, MES_PASADO)
              \/ ~(HasMonth \/ HasWeek \/ HasAyer \/ HasHoy \/ HasYear))) =>
        parsed_date_info = PrevMonthRange

-----------------------------------------------------------------------------
(* C5 *)

Neither(d) == "date" \notin DOMAIN d /\ ~("start" \in DOMAIN d /\ "end" \in DOMAIN d)

\* main() has left the filter-building step
FilterStepDone == pc = "fetch" \/ (pc = "done" /\ Resolved)

\* C5: build_filter_expression returns the empty string exactly when the
\* DateQuery has neither "date" nor both "start" and "end"; and when it does
\* the handler answers 400 and posts nothing to the search or RAG service.
C5_EmptyFilterIs400 ==
    FilterStepDone =>
        LET f == build_filter_expression(parsed_date_info)
        IN  /\ (~f.raised /\ f.value = <<>>) <=> Neither(parsed_date_info)
            /\ Neither(parsed_date_info) =>
                 /\ filter_string = <<>>
                 /\ pc = "done"
                 /\ response.status_code = 400
                 /\ posts = <<>>
            /\ ~Neither(parsed_date_info) =>
                 /\ response.status_code # 400
                 /\ (filter_string = <<>> => response.status_code = 500 /\ posts = <<>>)

\* the agent returned a "start" without an "end": 400, nothing posted
C5_Witness ==
    /\ pc = "done"
    /\ resolver = "agent"
    /\ DOMAIN parsed_date_info = {"start"}
    /\ response.status_code = 400
    /\ posts = <<>>

-----------------------------------------------------------------------------
(* C6 *)

\* C6: every 200 response of either handler has a JSON body holding the
\* resolved date or range, the filter string that was built, and the fetched
\* result (the documents, or the generated answer).
C6_OkBodyHasAllThree ==
    response.status_code = 200 =>
        /\ response.json
        /\ "parsed_dates" \in DOMAIN response.body
        /\ "filter" \in DOMAIN response.body
        /\ ("filtered_items" \in DOMAIN response.body
              \/ "gpt_answer" \in DOMAIN response.body)

-----------------------------------------------------------------------------
(* C7 *)

\* the one call of the request did not get a 2xx answer
CallFailed ==
    /\ posts # <<>>
    /\ (service_reply.exception \/ service_reply.status_code \notin 200..299)

\* C7: a request posts at most once to the search/RAG service, and only a
\* non-empty filter; if that call fails (an exception, or a response that
\* is not 2xx) the request ends with a 500 carrying {"error": message},
\* with no second call.
C7_OneCallFailureIs500 ==
    /\ Len(posts) <= 1
    /\ \A i \in 1..Len(posts) : posts[i] # <<>> /\ posts[i] = filter_string
    /\ CallFailed =>
         /\ pc = "done"
         /\ response.status_code = 500
         /\ response.json
         /\ DOMAIN response.body = {"error"}

-----------------------------------------------------------------------------
(* C8 *)

\* the years 2000-2099 named by the first year token of the query
YearRange ==
    LET y == YearFound(QueryLower)
    IN  DateRange(<<y, 1, 1>>, <<y, 12, 31>>)

\* a range of seven consecutive days
IsSevenDays(d) == IsRange(d) /\ RangeEnd(d) = RangeStart(d) + 6

\* C8: the fallback applies the first matching rule of (1) "mes pasado" /
\* "último mes", (2) "semana pasada" / "última semana", (3) "ayer", (4) "hoy",
\* (5) a year token 20dd, (6) the default: previous month, a seven-day
\* range, yesterday, today, [Year-01-01, Year-12-31], previous month.
C8_PriorityOrder ==
    resolver = "fallback" =>
        LET d == parsed_date_info
        IN  CASE HasMonth -> d = PrevMonthRange
              [] HasWeek  -> IsSevenDays(d)
              [] HasAyer  -> d = SingleDate(FromOrdinal(today - 1))
              [] HasHoy   -> d = SingleDate(FromOrdinal(today))
              [] HasYear  -> d = YearRange
              [] OTHER    -> d = PrevMonthRange

-----------------------------------------------------------------------------
(* C9 *)

AssistantTexts == {i \in 1..Len(messages) : HasAssistantText(messages[i])}

Max(S) == CHOOSE x \in S : \A y \in S : x >= y

\* what the handler's extraction gives on a thread holding msg alone
ExtractFrom(msg) == call_date_parser_agent(variant, TRUE, "completed", <<msg>>)

\* C9: when the thread holds several assistant messages with (non-empty)
\* text, the DateQuery is the one extracted from the last of them: an
\* earlier message never decides the outcome.
C9_LastAssistantMessage ==
    (Resolved /\ run_status \in {"completed", "expired"}
        /\ Cardinality(AssistantTexts) >= 2
        /\ \A i \in AssistantTexts : messages[i].text # <<>>) =>
        LET r == ExtractFrom(messages[Max(AssistantTexts)])
        IN  IF r.raised THEN resolver = "fallback"
            ELSE resolver = "agent" /\ parsed_date_info = r.value

-----------------------------------------------------------------------------
(* C10 *)

\* the trimmed text of the assistant's reply
ReplyText == strip_text(messages[Len(messages)].text)

\* brace-delimited substrings of s with no brace inside
SingleLevelGroups(s) ==
    {g \in (1..Len(s)) \X (1..Len(s)) :
        /\ g[1] < g[2]
        /\ s[g[1]] = LBRACE /\ s[g[2]] = RBRACE
        /\ \A k \in (g[1] + 1)..(g[2] - 1) : s[k] \notin Braces}

\* the text from the first "{" to the next "}" is on one line and is JSON
FirstGroupValid(s) ==
    \E i \in 1..Len(s) : \E j \in (i + 1)..Len(s) :
        /\ s[i] = LBRACE /\ \A k \in 1..(i - 1) : s[k] # LBRACE
        /\ s[j] = RBRACE /\ \A k \in (i + 1)..(j - 1) : s[k] \notin {RBRACE, NEWLINE}
        /\ json_loads(SubSeq(s, i, j)).ok

AgentAnswered == Resolved /\ run_status # "failed" /\ Len(messages) = 2

-----------------------------------------------------------------------------
(* C11 *)

\* exactly a "date", or exactly a "start" and an "end" with start <= end
WellFormed(d) ==
    \/ DOMAIN d = {"date"} /\ IsCalendarDate(d["date"])
    \/ /\ IsRange(d)
       /\ IsCalendarDate(d["start"]) /\ IsCalendarDate(d["end"])
       /\ RangeStart(d) <= RangeEnd(d)

\* C11: for every query and every reference date the DateQuery of the
\* fallback is well-formed, build_filter_expression on it neither raises
\* nor returns the empty string, and a request that used the fallback
\* leaves the filter step for the fetch, never with the 400 response.
C11_FallbackNeverNoDate ==
    resolver = "fallback" =>
        /\ WellFormed(parsed_date_info)
        /\ ~build_filter_expression(parsed_date_info).raised
        /\ build_filter_expression(parsed_date_info).value # <<>>
        /\ response.status_code \notin {400, 500}
        /\ pc \in {"build_filter", "fetch"}
        /\ (pc = "fetch" =>
              /\ filter_string = build_filter_expression(parsed_date_info).value
              /\ response = NoResponse)

\* a year query served from the fallback has its filter and awaits the fetch
C11_Witness ==
    /\ resolver = "fallback"
    /\ pc = "fetch"
    /\ HasYear /\ ~HasMonth /\ ~HasWeek /\ ~HasAyer /\ ~HasHoy
    /\ variant = "seacrh_by_date"
    /\ parsed_date_info = YearRange
    /\ filter_string # <<>>

-----------------------------------------------------------------------------
(* C12 *)

\* a value that build_filter_expression hands to parse_date is not a date
Unparseable(d) ==
    IF "date" \in DOMAIN d THEN ~IsCalendarDate(d["date"])
    ELSE /\ "start" \in DOMAIN d /\ "end" \in DOMAIN d
         /\ (~IsCalendarDate(d["start"]) \/ ~IsCalendarDate(d["end"]))

\* C12: when the agent path succeeds with an object whose "date" (or
\* "start"/"end") value cannot be parsed as a date, build_filter_expression
\* raises outside the try/except of the date-parsing step, so once the
\* filter step has run the request has ended with a 500 {"error": ...};
\* fallback_date_parser was not called and nothing was posted to the
\* search/RAG service.
C12_BadAgentDateIs500 ==
    (resolver = "agent" /\ Unparseable(parsed_date_info)) =>
        /\ build_filter_expression(parsed_date_info).raised
        /\ fallback_calls = <<>>
        /\ posts = <<>>
        /\ pc \in {"build_filter", "done"}
        /\ (pc = "done" =>
              /\ response.status_code = 500
              /\ response.json
              /\ DOMAIN response.body = {"error"}
              /\ filter_string = <<>>)

\* the agent gave a range whose "end" is no date: the request ended in 500
C12_Witness ==
    /\ resolver = "agent"
    /\ pc = "done"
    /\ DOMAIN parsed_date_info = {"start", "end"}
    /\ IsCalendarDate(parsed_date_info["start"])
    /\ ~IsCalendarDate(parsed_date_info["end"])
    /\ response.status_code = 500
    /\ fallback_calls = <<>> /\ posts = <<>>

=============================================================================
